---- MODULE Spec2Model ----
(***************************************************************************)
(* Model of CodeRefactorTool (src/src/tools/code/code_refactor_tool.py):   *)
(* the multi-pass refactor pipeline started from a URL or from a stored    *)
(* file id.  A Python string is modelled as the sequence of its pieces     *)
(* (a source text as the sequence of its lines), a dict as a function from *)
(* its keys, a raised exception as an output of kind "raise".              *)
(***************************************************************************)
EXTENDS Integers, Sequences, FiniteSets, TLC

\* ------------------------------------------------------------------ bounds
\* largest number of concerns a configuration of the model enables
MaxPasses == 2
\* largest number of lines of the artifact text
MaxLines == 3
\* largest number of enable options a configuration leaves out
MaxOmitted == 1
\* number of code files of a collection
MaxFiles == 3
\* largest number of includes of a code file
MaxIncludes == 2

\* the elements of a sequence
Range(f) == { f[i] : i \in DOMAIN f }

\* ------------------------------------------------------- values of the model
\* the lines artifact texts are made of
SourceLines == <<"import os", "a=1", "print(a)", "b=2", "print(b)">>

\* the artifact texts: the first n source lines
FileTexts == { SubSeq(SourceLines, 1, n) : n \in 1..MaxLines }

\* max_code_size_tokens values of the configuration
TokenLimits == { 1, MaxLines - 1 }

TargetUrl == "https://host/repo/a.py"
FileName == "a.py"

\* template_checks of get_active_code_refactor_templates, in dict order
template_checks == <<
    [setting |-> "security_code_refactor",        name |-> "SECURITY_CODE_REFACTOR_TEMPLATE",        description |-> "Security"],
    [setting |-> "performance_code_refactor",     name |-> "PERFORMANCE_CODE_REFACTOR_TEMPLATE",     description |-> "Performance"],
    [setting |-> "memory_code_refactor",          name |-> "MEMORY_CODE_REFACTOR_TEMPLATE",          description |-> "Memory"],
    [setting |-> "correctness_code_refactor",     name |-> "CORRECTNESS_CODE_REFACTOR_TEMPLATE",     description |-> "Correctness"],
    [setting |-> "maintainability_code_refactor", name |-> "MAINTAINABILITY_CODE_REFACTOR_TEMPLATE", description |-> "Maintainability"],
    [setting |-> "reliability_code_refactor",     name |-> "RELIABILITY_CODE_REFACTOR_TEMPLATE",     description |-> "Reliability"] >>

Settings == { template_checks[i].setting : i \in 1..Len(template_checks) }

\* the orders in which a configuration may list its enable_<setting> options
ConfigOrders == { [i \in 1..Len(template_checks) |-> template_checks[i].setting],
                  [i \in 1..Len(template_checks) |-> template_checks[Len(template_checks) + 1 - i].setting] }

\* additional_settings of one tool: the enable_<setting> options in the order
\* the configuration lists them, each with its value
SettingsOf(order, enabled) ==
    [i \in 1..Len(order) |-> [name |-> order[i], value |-> order[i] \in enabled]]

\* additional_settings[f"enable_{setting}"]["value"]
SettingValue(additional, setting) ==
    LET i == CHOOSE j \in 1..Len(additional) : additional[j].name = setting
    IN additional[i].value

EnabledOf(additional) ==
    { additional[i].name : i \in { j \in 1..Len(additional) : additional[j].value } }

\* the templates in the order the configuration lists its options
ConfigOrderTemplates(additional) ==
    LET Tpl(s) == LET i == CHOOSE j \in 1..Len(template_checks) : template_checks[j].setting = s
                  IN [name |-> template_checks[i].name, description |-> template_checks[i].description]
        F[n \in 0..Len(additional)] ==
            IF n = 0 THEN <<>>
            ELSE IF additional[n].value THEN Append(F[n - 1], Tpl(additional[n].name))
                 ELSE F[n - 1]
    IN F[Len(additional)]

\* get_active_code_refactor_templates: walks template_checks in its own order
\* and keeps the entries whose option is set
get_active_code_refactor_templates(additional) ==
    LET F[n \in 0..Len(template_checks)] ==
            IF n = 0 THEN <<>>
            ELSE IF SettingValue(additional, template_checks[n].setting)
                 THEN Append(F[n - 1], [name |-> template_checks[n].name,
                                        description |-> template_checks[n].description])
                 ELSE F[n - 1]
    IN F[Len(template_checks)]

\* num_tokens_from_string: the cost estimate of a text
num_tokens_from_string(text) == Len(text)

\* f"{line_num + 1}: {line}" for line_num, line in enumerate(file_data.splitlines())
code_with_line_numbers(file_data) ==
    [i \in 1..Len(file_data) |-> ToString(i) \o ": " \o file_data[i]]

\* ---------------------------------------------------------- model replies
RequiredKeys == {"language", "metadata", "thoughts", "refactored_code"}

\* order of the keys in the textual encoding of a reply
KeyOrder == <<"language", "metadata", "thoughts", "refactored_code", "final_answer">>

Language == "python"
RefusalText == "I cannot return the full code"

\* refactored_code and thoughts of the replies of the model
ReplyVariants == {
    [refactored_code |-> <<"a = 1  # spaced">>,    thoughts |-> "added spacing"],
    [refactored_code |-> <<"import os", "a=1">>, thoughts |-> "nothing to change"] }

\* metadata a reply may carry instead of the metadata it was given
OtherMetadata == ("filename" :> "other.py")
NoLabelMetadata == ("sha" :> "0a1b2c")

FullReply(v, md) ==
    ("language" :> Language) @@ ("metadata" :> md) @@
    ("thoughts" :> v.thoughts) @@ ("refactored_code" :> v.refactored_code)

Without(d, k) == [x \in (DOMAIN d) \ {k} |-> d[x]]

\* an answer of the model in prose: no fence, no JSON object
FreeText == "The code is fine as it is."
FreeTextReply == ("free_text" :> FreeText)

\* the replies of the model to a prompt that carries metadata md0: the JSON
\* objects it may encode and the answer in prose that encodes none
Replies(md0) ==
    { FullReply(v, md) : v \in ReplyVariants, md \in {md0, OtherMetadata, NoLabelMetadata} }
    \cup { Without(FullReply(v, md0), k) : v \in ReplyVariants, k \in RequiredKeys }
    \cup { ("final_answer" :> RefusalText) }
    \cup { FullReply(v, md0) @@ ("final_answer" :> RefusalText) : v \in ReplyVariants }
    \cup { FreeTextReply }

\* str(dict) of a metadata dict
ReprMetadata(md) ==
    LET Keys == <<"url", "filename", "sha">>
        F[n \in 0..Len(Keys)] ==
            IF n = 0 THEN <<>>
            ELSE IF Keys[n] \in DOMAIN md
                 THEN F[n - 1] \o <<"'" \o Keys[n] \o "': ", md[Keys[n]]>>
                 ELSE F[n - 1]
    IN <<"{">> \o F[Len(Keys)] \o <<"}">>

\* the markdown fence of three backquotes, written with a character a TLA+
\* string may hold
Fence == "'''"

\* the text of a reply: the JSON encoding of its keys and values
JsonText(d) ==
    LET Val(k) == IF k = "metadata" THEN ReprMetadata(d[k])
                  ELSE IF k = "refactored_code" THEN d[k]
                  ELSE <<d[k]>>
        F[n \in 0..Len(KeyOrder)] ==
            IF n = 0 THEN <<>>
            ELSE IF KeyOrder[n] \in DOMAIN d
                 THEN F[n - 1] \o <<"\"" \o KeyOrder[n] \o "\": ">> \o Val(KeyOrder[n])
                 ELSE F[n - 1]
    IN <<Fence \o "json {">> \o F[Len(KeyOrder)] \o <<"} " \o Fence>>

\* the metadata of a run: the file info of the retriever without its
\* file_content (url entry), the file name of the stored file (file id entry)
UrlMetadata == ("url" :> TargetUrl)
FileIdMetadata == ("filename" :> FileName)

\* every reply of the model with its text: the JSON encoding of an object,
\* the bare prose of the answer that is none
ReplyTexts ==
    [d \in Replies(UrlMetadata) \cup Replies(FileIdMetadata) |->
        IF d = FreeTextReply THEN <<d["free_text"]>> ELSE JsonText(d)]

\* llm.predict: the text the model answers with when its reply is d
predict(d) == ReplyTexts[d]

\* llm = get_tool_llm(...), the model handle the entry points pass on
llm == "get_tool_llm"

\* a text that is a fenced JSON object
IsJsonObject(text) ==
    /\ Len(text) >= 2
    /\ text[1] = Fence \o "json {"
    /\ text[Len(text)] = "} " \o Fence

\* the lines of a text joined into one string
JoinLines(text) ==
    LET F[n \in 1..Len(text)] == IF n = 1 THEN text[1] ELSE F[n - 1] \o "\n" \o text[n]
    IN IF text = <<>> THEN "" ELSE F[Len(text)]

\* parse_json(text, llm): the dict a reply text encodes; a text that decodes
\* to no JSON object falls back to the free-text key final_answer, which
\* holds the text as it came. The handle is taken and, in this model, not
\* called.
parse_json(text, model) ==
    IF IsJsonObject(text)
    THEN CHOOSE d \in DOMAIN ReplyTexts : d # FreeTextReply /\ ReplyTexts[d] = text
    ELSE ("final_answer" :> JoinLines(text))

\* ------------------------------------------------------------- the outputs
NoOutput == [kind |-> "none", exc |-> "", value |-> <<>>]
Return(text) == [kind |-> "return", exc |-> "", value |-> text]
Raise(exc, text) == [kind |-> "raise", exc |-> exc, value |-> text]

NoActiveTemplatesMessage ==
    "No active templates found for this tool.  You must enable at least one of the refactoring templates."
NotCodeMessage ==
    "File is not code. Please select a code file to conduct a refactor on, or use a different tool."

\* the message of _refactor_file_from_url for an oversized file
TooLargeMessage(code_file_token_count, max_token_count) ==
    << "File is too large to be refactored (", ToString(code_file_token_count),
       " tokens). Adjust max code refactor tokens, or refactor this code file so that it's smaller." >>

\* str(results) of the results dict
ReprResults(r) ==
    LET T == r.refactor_thoughts
        F[n \in 0..Len(T)] ==
            IF n = 0 THEN <<>>
            ELSE F[n - 1] \o <<"{'refactor_type': ", T[n].refactor_type,
                               ", 'thoughts': ", T[n].thoughts, "}">>
    IN <<"{'language': ", r.language, ", 'metadata': ">> \o ReprMetadata(r.metadata)
       \o <<", 'refactor_thoughts': [">> \o F[Len(T)]
       \o <<"], 'refactored_code': ">> \o r.refactored_code \o <<"}">>

\* a label that takes the file name first
FileLabelFilenameFirst(md) == IF "filename" \in DOMAIN md THEN md["filename"] ELSE md["url"]

\* metadata['url'] if 'url' in metadata else metadata['filename']
FileLabel(md) == IF "url" \in DOMAIN md THEN md["url"] ELSE md["filename"]

\* format_refactor_results: the human readable layout, or the KeyError of
\* the lookup of metadata["filename"]
format_refactor_results(r) ==
    LET T == r.refactor_thoughts
        F[n \in 0..Len(T)] ==
            IF n = 0 THEN <<>>
            ELSE F[n - 1] \o (IF n > 1 THEN <<"\n\n">> ELSE <<>>)
                 \o <<"#### **", T[n].refactor_type, "**\n- ", T[n].thoughts>>
    IN IF "url" \notin DOMAIN r.metadata /\ "filename" \notin DOMAIN r.metadata
       THEN Raise("KeyError", <<"filename">>)
       ELSE Return(
            <<"## Code Refactor\n- Language: **", r.language, "**\n- File: **",
              FileLabel(r.metadata),
              "**\n\n">>
            \o F[Len(T)]
            \o <<"\n\n### Refactored Code\n" \o Fence, r.language, "\n">>
            \o r.refactored_code \o <<"\n" \o Fence \o "\n">>)

\* ------------------------------------------------------------------ state
VARIABLES
    entry,                 \* the entry point of the run: "url" or "file_id"
    additional_settings,   \* the enable_<setting> options of the entry point's tool
    max_code_size_tokens,  \* additional_settings["max_code_size_tokens"]["value"]
    json_output,           \* additional_settings["json_output"]["value"]
    file_data,             \* the text of the artifact
    file_classification,   \* file_model.file_classification (file id entry)
    additional_instructions, \* the additional_instructions argument of the entry point
    source_control_provider, \* self.source_control_provider
    state,                 \* Idle, Running, or the terminal state of the run
    templates,             \* the active templates of _run_code_refactors
    idx,                   \* position of the loop over templates, 1-based
    awaiting,              \* TRUE while llm.predict of pass idx is outstanding
    code,                  \* the loop variable code
    metadata,              \* the metadata argument of _run_code_refactors
    refactor_results,      \* the list refactor_results
    json_data,             \* the text of the last reply
    data,                  \* the last decoded reply
    results,               \* the results dict, the empty function before it is built
    output,                \* what the caller receives: a returned text or a raised exception
    prompts,               \* the prompts given to llm.predict so far, in order
    cancel_requested,      \* TRUE once the caller has asked to cancel the run
    runs,                  \* the runs that execute concurrently on one tool
    report,                \* the refactor_results argument of format_refactor_results
    rendering,             \* what format_refactor_results gave for report
    collection,            \* the code files of the collection: file name -> includes
    intermediate_steps,    \* the (action, observation) pairs of the agent executor
    pending,               \* the planned actions the executor has not run yet
    planned,               \* what the last call of StubbingAgent.plan returned
    iterations,            \* the iterations of the executor loop so far
    agent_state,           \* Idle, Running, Finished, Stopped or Failed
    agent_output           \* what create_stubs gives its caller

vars == << entry, additional_settings, max_code_size_tokens, json_output, file_data,
           file_classification, additional_instructions, source_control_provider, state, templates, idx, awaiting, code, metadata,
           refactor_results, json_data, data, results, output, prompts,
           cancel_requested, runs, report, rendering, collection, intermediate_steps,
           pending, planned, iterations, agent_state, agent_output >>

\* the call of format_refactor_results on its own
formatting == << report, rendering >>

\* the stubbing agent and its executor
stubbing == << collection, intermediate_steps, pending, planned, iterations, agent_state,
               agent_output >>

\* the state outside the single run: the request of the caller to cancel and
\* the concurrent runs
outside == << cancel_requested, runs, formatting, stubbing >>

config == << entry, additional_settings, max_code_size_tokens, json_output, file_data,
             file_classification, additional_instructions, source_control_provider >>

\* additional_instructions = None
NoInstructions == "None"

\* the instructions a user supplies
UserInstructions == {"", "keep the public names"}

\* the keys of source_control_to_retriever_map
source_control_to_retriever_map == {"gitlab", "github"}

\* the values of SOURCE_CONTROL_PROVIDER, lowered
Providers == source_control_to_retriever_map \cup {"bitbucket"}

\* the text an entry point makes of its additional_instructions argument
\* before it hands it on: a falsy argument is passed as it is
FormatInstructions(e, ai) ==
    IF ai = NoInstructions \/ ai = ""
    THEN <<ai>>
    ELSE IF e = "url"
    THEN <<"\nIn addition to the base code refactor instructions, consider these user-provided instructions:\n",
           ai, "\n">>
    ELSE <<"\n--- ADDITIONAL INSTRUCTIONS ---\n", ai, "\n--- ADDITIONAL INSTRUCTIONS ---\n">>

\* the message of retrieve_source_code_from_url for a provider without retriever
NoRetrieverMessage(provider) ==
    <<"Source control provider ", provider, " does not support file retrieval">>

FileClassifications == {"Code", "Document"}

\* str.lower on the classifications of the model
Lower(s) == CASE s = "Code" -> "code" [] s = "Document" -> "document" [] OTHER -> s

Terminal == {"Completed", "HaltedRefusal", "HaltedMalformed", "HaltedBudget",
             "HaltedNoPasses", "HaltedNotCode", "Failed", "InvocationFailed",
             "HaltedConfigError", "RetrievalFailed"}

\* the errors llm.predict may raise: transport, quota, timeout
InvocationErrors == {"ConnectionError", "RateLimitError", "TimeoutError"}

\* the sets of concerns the configurations of the model enable
EnabledSets == { e \in SUBSET Settings : Cardinality(e) <= MaxPasses }

\* the inputs of a run other than the enable options
InitInputs ==
    /\ entry \in {"url", "file_id"}
    /\ max_code_size_tokens \in TokenLimits
    /\ json_output \in BOOLEAN
    /\ file_data \in FileTexts
    /\ file_classification \in (IF entry = "url" THEN {"Code"} ELSE FileClassifications)

\* no call of format_refactor_results on its own
NoFormatting ==
    /\ report = <<>>
    /\ rendering = NoOutput

\* no stubbing agent at work
NoStubbing ==
    /\ collection = <<>>
    /\ intermediate_steps = <<>>
    /\ pending = <<>>
    /\ planned = <<>>
    /\ iterations = 0
    /\ agent_state = "Idle"
    /\ agent_output = NoOutput

\* the variables of the run before its entry point is called
RunIdle ==
    /\ state = "Idle"
    /\ templates = <<>>
    /\ idx = 0
    /\ awaiting = FALSE
    /\ code = <<>>
    /\ metadata = <<>>
    /\ refactor_results = <<>>
    /\ json_data = <<>>
    /\ data = <<>>
    /\ results = <<>>
    /\ output = NoOutput
    /\ prompts = <<>>
    /\ cancel_requested = FALSE
    /\ runs = <<>>

\* the state of a run before its entry point is called
InitRun ==
    /\ RunIdle
    /\ NoFormatting
    /\ NoStubbing

\* a caller that gives no instructions, on the default provider
InitCaller ==
    /\ additional_instructions = NoInstructions
    /\ source_control_provider = "github"

\* a run on a configuration that lists each of the six enable options
Init ==
    /\ \E order \in ConfigOrders : \E enabled \in EnabledSets :
          additional_settings = SettingsOf(order, enabled)
    /\ InitInputs
    /\ InitCaller
    /\ InitRun

\* additional_settings that leave the options of omitted out
SettingsOmitting(order, enabled, omitted) ==
    LET Listed(o) == o.name \notin omitted
    IN SelectSeq(SettingsOf(order, enabled), Listed)

\* a run on a configuration that may leave out up to MaxOmitted of the
\* options it does not set
InitOptions ==
    /\ \E order \in ConfigOrders : \E enabled \in EnabledSets :
       \E omitted \in { o \in SUBSET (Settings \ enabled) : Cardinality(o) <= MaxOmitted } :
          additional_settings = SettingsOmitting(order, enabled, omitted)
    /\ InitInputs
    /\ InitCaller
    /\ InitRun

\* the settings of template_checks that additional_settings does not list, by
\* their position in template_checks
MissingOptions(additional) ==
    { n \in 1..Len(template_checks) :
        \A j \in 1..Len(additional) : additional[j].name # template_checks[n].setting }

\* the key of the first lookup additional_settings[f"enable_{setting}"] of the
\* loop over template_checks that fails
FirstMissingKey(additional) ==
    LET n == CHOOSE m \in MissingOptions(additional) :
                 \A k \in MissingOptions(additional) : m <= k
    IN "enable_" \o template_checks[n].setting

\* _conduct_code_refactor and _run_code_refactors up to the loop: number the
\* lines, read the active templates, raise when there is none
Conduct(md) ==
    /\ metadata' = md
    /\ code' = code_with_line_numbers(file_data)
    /\ IF MissingOptions(additional_settings) # {}
       THEN /\ templates' = templates
            /\ state' = "HaltedConfigError"
            /\ output' = Raise("KeyError", <<FirstMissingKey(additional_settings)>>)
            /\ idx' = idx
       ELSE /\ templates' = get_active_code_refactor_templates(additional_settings)
            /\ IF Len(templates') = 0
               THEN /\ state' = "HaltedNoPasses"
                    /\ output' = Raise("Exception", <<NoActiveTemplatesMessage>>)
                    /\ idx' = idx
               ELSE /\ state' = "Running"
                    /\ output' = output
                    /\ idx' = 1
    /\ UNCHANGED << config, outside, awaiting, refactor_results, json_data, data, results, prompts >>

\* a size check that also rejects a file whose count equals the maximum
TooLargeOrEqual(code_file_token_count, max_token_count) ==
    code_file_token_count >= max_token_count

\* if code_file_token_count > max_token_count
TooLarge(code_file_token_count, max_token_count) ==
    code_file_token_count > max_token_count

\* an entry point that looks at the active templates before the size of the
\* file
StartFromUrlPassesFirst ==
    /\ state = "Idle"
    /\ entry = "url"
    /\ LET file_info == UrlMetadata
           code_file_token_count == num_tokens_from_string(file_data)
       IN IF /\ TooLarge(code_file_token_count, max_code_size_tokens)
             /\ Len(get_active_code_refactor_templates(additional_settings)) > 0
          THEN /\ state' = "HaltedBudget"
               /\ output' = Return(TooLargeMessage(code_file_token_count, max_code_size_tokens))
               /\ UNCHANGED << config, outside, templates, idx, awaiting, code, metadata,
                               refactor_results, json_data, data, results, prompts >>
          ELSE Conduct(file_info)

\* conduct_code_refactor_from_url and _refactor_file_from_url: the retrieval,
\* the size check, then the refactor with the file info as metadata.  Without
\* a retriever file_info is the message of retrieve_source_code_from_url, a
\* str, and file_info.pop raises.
StartFromUrl ==
    /\ state = "Idle"
    /\ entry = "url"
    /\ IF source_control_provider \notin source_control_to_retriever_map
       THEN /\ state' = "RetrievalFailed"
            /\ output' = Raise("AttributeError", <<"'str' object has no attribute 'pop'">>)
            /\ UNCHANGED << config, outside, templates, idx, awaiting, code, metadata,
                            refactor_results, json_data, data, results, prompts >>
       ELSE LET file_info == UrlMetadata
                code_file_token_count == num_tokens_from_string(file_data)
            IN IF TooLarge(code_file_token_count, max_code_size_tokens)
               THEN /\ state' = "HaltedBudget"
                    /\ output' = Return(TooLargeMessage(code_file_token_count,
                                                        max_code_size_tokens))
                    /\ UNCHANGED << config, outside, templates, idx, awaiting, code, metadata,
                                    refactor_results, json_data, data, results, prompts >>
               ELSE Conduct(file_info)

\* conduct_code_refactor_from_file_id: the classification check, then the
\* refactor with the file name as metadata
StartFromFileId ==
    /\ state = "Idle"
    /\ entry = "file_id"
    /\ IF Lower(file_classification) # "code"
       THEN /\ state' = "HaltedNotCode"
            /\ output' = Return(<<NotCodeMessage>>)
            /\ UNCHANGED << config, outside, templates, idx, awaiting, code, metadata,
                            refactor_results, json_data, data, results, prompts >>
       ELSE Conduct(FileIdMetadata)

\* a prompt that embeds the text of the artifact in every pass
BuildPromptOriginalText(template, c, md, ai) ==
    [template |-> template.name, code |-> code_with_line_numbers(file_data), code_metadata |-> md,
     additional_instructions |-> ai]

\* a prompt that takes its metadata from the reply of the pass before
BuildPromptReplyMetadata(template, c, md, ai) ==
    [template |-> template.name, code |-> c,
     code_metadata |-> IF "metadata" \in DOMAIN data THEN data["metadata"] ELSE md,
     additional_instructions |-> ai]

\* the prompt of one pass: the template of the concern and what
\* FINAL_CODE_REFACTOR_INSTRUCTIONS is formatted with
BuildPrompt(template, c, md, ai) ==
    [template |-> template.name, code |-> c, code_metadata |-> md,
     additional_instructions |-> ai]

\* moves on to the next template while llm.predict is outstanding
InvokeEager ==
    /\ state = "Running"
    /\ \/ ~awaiting /\ idx' = idx
       \/ awaiting /\ idx < Len(templates) /\ idx' = idx + 1
    /\ prompts' = Append(prompts, BuildPrompt(templates[idx'], code, metadata,
                                       FormatInstructions(entry, additional_instructions)))
    /\ awaiting' = TRUE
    /\ UNCHANGED << config, outside, state, templates, code, metadata, refactor_results,
                    json_data, data, results, output >>

\* one iteration of the loop up to llm.predict
Invoke ==
    /\ state = "Running"
    /\ ~awaiting
    /\ prompts' = Append(prompts, BuildPrompt(templates[idx], code, metadata,
                                       FormatInstructions(entry, additional_instructions)))
    /\ awaiting' = TRUE
    /\ UNCHANGED << config, outside, state, templates, idx, code, metadata, refactor_results,
                    json_data, data, results, output >>

\* llm.predict raises and the error is swallowed: the loop goes on
OnPredictErrorCaught(err) ==
    [state |-> "Running", output |-> output]

\* llm.predict raises: nothing around the call catches the error, it leaves
\* _run_code_refactors and the entry point as it is
OnPredictError(err) ==
    [state |-> "InvocationFailed", output |-> Raise(err, <<"llm.predict failed">>)]

\* llm.predict of the outstanding pass raises err
PredictFails(err) ==
    /\ state = "Running"
    /\ awaiting
    /\ awaiting' = FALSE
    /\ state' = OnPredictError(err).state
    /\ output' = OnPredictError(err).output
    /\ UNCHANGED << config, outside, templates, idx, code, metadata, refactor_results,
                    json_data, data, results, prompts >>

\* the results dict built around the code under its line numbers
AggregateNumbered(d, rr, c) ==
    LET res == [language |-> d["language"],
                metadata |-> d["metadata"],
                refactor_thoughts |->
                    [i \in 1..Len(rr) |-> [refactor_type |-> rr[i]["refactor_type"],
                                           thoughts |-> rr[i]["thoughts"]]],
                refactored_code |-> code_with_line_numbers(c)]
    IN IF RequiredKeys \subseteq DOMAIN d /\ \A i \in 1..Len(rr) : "thoughts" \in DOMAIN rr[i]
       THEN [state |-> "Completed", output |-> Return(ReprResults(res)), results |-> res]
       ELSE [state |-> "HaltedMalformed", output |-> Raise("KeyError", <<"metadata">>), results |-> <<>>]

\* a rendering that gives the human readable layout under either setting
AggregateUnstructured(d, rr, c) ==
    IF "metadata" \notin DOMAIN d
    THEN [state |-> "HaltedMalformed", output |-> Raise("KeyError", <<"metadata">>), results |-> <<>>]
    ELSE IF "language" \notin DOMAIN d
    THEN [state |-> "HaltedMalformed", output |-> Raise("KeyError", <<"language">>), results |-> <<>>]
    ELSE IF \E i \in 1..Len(rr) : "thoughts" \notin DOMAIN rr[i]
    THEN [state |-> "HaltedMalformed", output |-> Raise("KeyError", <<"thoughts">>), results |-> <<>>]
    ELSE LET res == [language |-> d["language"],
                     metadata |-> d["metadata"],
                     refactor_thoughts |->
                         [i \in 1..Len(rr) |-> [refactor_type |-> rr[i]["refactor_type"],
                                                thoughts |-> rr[i]["thoughts"]]],
                     refactored_code |-> c]
             out == format_refactor_results(res)
         IN [state |-> IF out.kind = "return" THEN "Completed" ELSE "Failed",
             output |-> out, results |-> res]

\* the lines after the loop: the results dict and its rendering
Aggregate(d, rr, c) ==
    IF "metadata" \notin DOMAIN d
    THEN [state |-> "HaltedMalformed", output |-> Raise("KeyError", <<"metadata">>), results |-> <<>>]
    ELSE IF "language" \notin DOMAIN d
    THEN [state |-> "HaltedMalformed", output |-> Raise("KeyError", <<"language">>), results |-> <<>>]
    ELSE IF \E i \in 1..Len(rr) : "thoughts" \notin DOMAIN rr[i]
    THEN [state |-> "HaltedMalformed", output |-> Raise("KeyError", <<"thoughts">>), results |-> <<>>]
    ELSE LET res == [language |-> d["language"],
                     metadata |-> d["metadata"],
                     refactor_thoughts |->
                         [i \in 1..Len(rr) |-> [refactor_type |-> rr[i]["refactor_type"],
                                                thoughts |-> rr[i]["thoughts"]]],
                     refactored_code |-> c]
             out == IF json_output
                    THEN Return(<<Fence \o "json\n">> \o ReprResults(res) \o <<"\n" \o Fence>>)
                    ELSE format_refactor_results(res)
         IN [state |-> IF out.kind = "return" THEN "Completed" ELSE "Failed",
             output |-> out, results |-> res]

\* a test that takes a reply for a final answer only when it holds nothing else
HasOnlyFinalAnswer(parsed) == DOMAIN parsed = {"final_answer"}

\* if "final_answer" in data
HasFinalAnswer(parsed) == "final_answer" \in DOMAIN parsed

\* a rendering of the refusal that follows the json_output setting
RefusalOutputRendered(parsed) ==
    IF json_output
    THEN Return(<<Fence \o "json\n", parsed["final_answer"], "\n" \o Fence>>)
    ELSE Return(<<parsed["final_answer"]>>)

\* return data['final_answer']
RefusalOutput(parsed) == Return(<<parsed["final_answer"]>>)

\* the rest of the iteration once llm.predict returns the text of reply d
Reply(d) ==
    /\ state = "Running"
    /\ awaiting
    /\ awaiting' = FALSE
    /\ json_data' = predict(d)
    /\ LET parsed == parse_json(json_data', llm)
           tagged == ("refactor_type" :> templates[idx].description) @@ parsed
       IN IF HasFinalAnswer(parsed)
          THEN /\ data' = parsed
               /\ state' = "HaltedRefusal"
               /\ output' = RefusalOutput(parsed)
               /\ UNCHANGED << code, refactor_results, idx, results >>
          ELSE IF "refactored_code" \notin DOMAIN parsed
          THEN /\ data' = parsed
               /\ state' = "HaltedMalformed"
               /\ output' = Raise("KeyError", <<"refactored_code">>)
               /\ UNCHANGED << code, refactor_results, idx, results >>
          ELSE /\ data' = tagged
               /\ code' = parsed["refactored_code"]
               /\ refactor_results' = Append(refactor_results, tagged)
               /\ IF idx < Len(templates)
                  THEN /\ idx' = idx + 1
                       /\ UNCHANGED << state, output, results >>
                  ELSE LET agg == Aggregate(tagged, refactor_results', code')
                       IN /\ state' = agg.state
                          /\ output' = agg.output
                          /\ results' = agg.results
                          /\ idx' = idx
    /\ UNCHANGED << config, outside, templates, metadata, prompts >>

Next ==
    \/ StartFromUrl
    \/ StartFromFileId
    \/ Invoke
    \/ \E d \in Replies(metadata) : Reply(d)
    \/ \E err \in InvocationErrors : PredictFails(err)

Spec == Init /\ [][Next]_vars

\* the runs on configurations that may leave options out
SpecOptions == InitOptions /\ [][Next]_vars

\* the runs of a caller who may give instructions: the report is rendered as
\* text and the options are listed in the order of template_checks
InitInstructions ==
    /\ \E enabled \in EnabledSets :
          additional_settings =
              SettingsOf([i \in 1..Len(template_checks) |-> template_checks[i].setting], enabled)
    /\ InitInputs
    /\ ~json_output
    /\ additional_instructions \in UserInstructions \cup {NoInstructions}
    /\ source_control_provider = "github"
    /\ InitRun

SpecInstructions == InitInstructions /\ [][Next]_vars

\* the runs of a tool under every value of SOURCE_CONTROL_PROVIDER
InitProvider ==
    /\ \E enabled \in EnabledSets :
          additional_settings =
              SettingsOf([i \in 1..Len(template_checks) |-> template_checks[i].setting], enabled)
    /\ InitInputs
    /\ ~json_output
    /\ additional_instructions = NoInstructions
    /\ source_control_provider \in Providers
    /\ InitRun

SpecProvider == InitProvider /\ [][Next]_vars

\* ---------------------------------------- format_refactor_results on its own
\* a tool that is not running
IdleTool ==
    /\ entry = "url"
    /\ additional_settings =
          SettingsOf([i \in 1..Len(template_checks) |-> template_checks[i].setting], {})
    /\ max_code_size_tokens \in TokenLimits
    /\ json_output = FALSE
    /\ file_data = <<SourceLines[1]>>
    /\ file_classification = "Code"
    /\ InitCaller
    /\ RunIdle

\* metadata that holds a url and a file name
BothMetadata == UrlMetadata @@ FileIdMetadata

\* the results dicts the formatter is given: a language, one of the metadata,
\* the rationale of the concerns of an enabled set in pipeline order, a text
Reports ==
    { [language |-> Language,
       metadata |-> md,
       refactor_thoughts |->
           LET active == get_active_code_refactor_templates(
                             SettingsOf([i \in 1..Len(template_checks) |->
                                            template_checks[i].setting], enabled))
           IN [i \in 1..Len(active) |->
                  [refactor_type |-> active[i].description,
                   thoughts |-> "pass " \o ToString(i) \o ": " \o v.thoughts]],
       refactored_code |-> v.refactored_code] :
        md \in {UrlMetadata, FileIdMetadata, BothMetadata, OtherMetadata, NoLabelMetadata},
        enabled \in EnabledSets,
        v \in ReplyVariants }

InitFormat ==
    /\ IdleTool
    /\ NoStubbing
    /\ report \in Reports
    /\ rendering = NoOutput

\* a call of format_refactor_results(report)
FormatReport ==
    /\ rendering = NoOutput
    /\ rendering' = format_refactor_results(report)
    /\ UNCHANGED << config, cancel_requested, runs, stubbing, report, state, templates, idx,
                    awaiting, code, metadata, refactor_results, json_data, data, results,
                    output, prompts >>

NextFormat == FormatReport

SpecFormat == InitFormat /\ [][NextFormat]_vars

\* ------------------------------------------------------ the stubbing agent
\* A str is the sequence of its pieces, a "," among them where the str has
\* a comma: "" is <<>>, "b.py" is <<"b.py">>, "b.py,c.py" is <<"b.py", ",", "c.py">>.

\* the names of the code files of the collection
CodeFiles == { <<"a.py", "b.py", "c.py", "d.py", "e.py">>[i] : i \in 1..MaxFiles }

\* kwargs["file_id"]: the file the stubs are made for
TargetFile == "a.py"

\* the include paths of the code files, by segment: those of the collection
\* and one of a file outside it
IncludeOrder ==
    [i \in 1..(MaxFiles + 1) |->
        IF i <= MaxFiles
        THEN <<"src", <<"a.py", "b.py", "c.py", "d.py", "e.py">>[i]>>
        ELSE <<"lib", "x.py">>]

\* the includes of one MODULE chunk: up to MaxIncludes paths
IncludeLists ==
    { SelectSeq(IncludeOrder, LAMBDA path : path \in chosen) :
        chosen \in { c \in SUBSET Range(IncludeOrder) : Cardinality(c) <= MaxIncludes } }

\* the collections: every code file with the includes of its MODULE chunk
Collections == [CodeFiles -> IncludeLists]

\* documents.get_document_chunks_by_file_id: a MODULE chunk with the includes
\* of the file and a chunk of another type
get_document_chunks_by_file_id(files, target_file_id) ==
    << [type |-> "MODULE", includes |-> files[target_file_id]],
       [type |-> "FUNCTION", includes |-> <<>>] >>

\* documents.get_file_by_name: the file of that name, "None" without one
get_file_by_name(files, name) ==
    IF Len(name) = 1 /\ name[1] \in DOMAIN files THEN name[1] ELSE "None"

\* include.split("/")[-1]
FileNameOf(include) == <<include[Len(include)]>>

\* ",".join(list)
JoinComma(list) ==
    LET F[n \in 0..Len(list)] ==
            IF n = 0 THEN <<>>
            ELSE IF n = 1 THEN list[1]
            ELSE F[n - 1] \o <<",">> \o list[n]
    IN F[Len(list)]

\* text.split(",")
SplitComma(text) ==
    LET F[n \in 0..Len(text)] ==
            IF n = 0 THEN <<<<>>>>
            ELSE IF text[n] = ","
                 THEN Append(F[n - 1], <<>>)
                 ELSE [F[n - 1] EXCEPT ![Len(F[n - 1])] = Append(@, text[n])]
    IN F[Len(text)]

\* the depth of nested calls at which the interpreter raises RecursionError;
\* the calls on a collection without include cycle nest MaxFiles deep at most
RecursionLimit == MaxFiles + 1

\* the first loops of get_dependency_list: the file names of the includes of
\* the MODULE chunks, each once, in order
TopLevelDependencies(files, target_file_id) ==
    LET chunks == get_document_chunks_by_file_id(files, target_file_id)
        Names(chunk) ==
            IF chunk.type = "MODULE"
            THEN [i \in 1..Len(chunk.includes) |-> FileNameOf(chunk.includes[i])]
            ELSE <<>>
        all == Names(chunks[1]) \o Names(chunks[2])
        F[n \in 0..Len(all)] ==
            IF n = 0 THEN <<>>
            ELSE IF all[n] \in Range(F[n - 1]) THEN F[n - 1] ELSE Append(F[n - 1], all[n])
    IN F[Len(all)]

RECURSIVE get_dependency_list(_, _, _)
RECURSIVE DependencyLoop(_, _, _, _)

\* the second loop of get_dependency_list from position pos on: the list
\* grows while the loop runs over it, and what a nested call returns is a str
\* that is appended whole
DependencyLoop(files, top_level_dependencies, pos, depth) ==
    IF pos > Len(top_level_dependencies)
    THEN Return(JoinComma(top_level_dependencies))
    ELSE LET file == get_file_by_name(files, top_level_dependencies[pos])
         IN IF file = "None"
            THEN DependencyLoop(files, top_level_dependencies, pos + 1, depth)
            ELSE LET dependencies == get_dependency_list(files, file, depth + 1)
                 IN IF dependencies.kind = "raise"
                    THEN dependencies
                    ELSE DependencyLoop(
                             files,
                             IF dependencies.value \in Range(top_level_dependencies)
                             THEN top_level_dependencies
                             ELSE Append(top_level_dependencies, dependencies.value),
                             pos + 1, depth)

\* Stubber.get_dependency_list as the call number depth of a nest of calls
get_dependency_list(files, target_file_id, depth) ==
    IF depth > RecursionLimit
    THEN Raise("RecursionError", <<"maximum recursion depth exceeded">>)
    ELSE DependencyLoop(files, TopLevelDependencies(files, target_file_id), 1, depth)

\* the name of the stub of a file: "Stub" put before the extension
StubNameOf(name) ==
    CASE name = "a.py" -> "aStub.py"
      [] name = "b.py" -> "bStub.py"
      [] name = "c.py" -> "cStub.py"
      [] name = "d.py" -> "dStub.py"
      [] name = "e.py" -> "eStub.py"
      [] name = "x.py" -> "xStub.py"
      [] OTHER -> name \o "Stub"

\* code_tool.create_stub_code: a dict with the code of the stub of the file
create_stub_code(file) == <<"# stub of ", file>>

\* '\n\n'.join of the code of the stubs
JoinStubs(codes) ==
    LET F[n \in 0..Len(codes)] ==
            IF n = 0 THEN <<>>
            ELSE IF n = 1 THEN codes[1]
            ELSE F[n - 1] \o <<"\n\n">> \o codes[n]
    IN F[Len(codes)]

\* the orders in which a loop may run over the set st
OrdersOf(st) ==
    { o \in [1..Cardinality(st) -> st] : \A i, j \in 1..Cardinality(st) : i # j => o[i] # o[j] }

\* what StubbingAgent.plan may return for intermediate_steps: the loop over
\* the set of dependencies runs in an order of the interpreter's choosing
plan(files, steps) ==
    IF steps = <<>>
    THEN { [kind |-> "action",
            actions |-> << [tool |-> "get_dependency_list", file |-> TargetFile,
                            available_dependencies |-> <<>>] >>] }
    ELSE IF steps[Len(steps)].action.tool = "get_dependency_list"
    THEN LET dependencies == Range(SplitComma(steps[Len(steps)].observation)) \ {<<>>}
         IN { IF \E i \in 1..Len(o) : get_file_by_name(files, o[i]) = "None"
              THEN [kind |-> "raise",
                    actions |-> <<"AttributeError", "'NoneType' object has no attribute 'id'">>]
              ELSE [kind |-> "actions",
                    actions |->
                        [i \in 1..Len(o) |->
                            [tool |-> "create_stub_code",
                             file |-> get_file_by_name(files, o[i]),
                             available_dependencies |->
                                 [j \in 1..Len(o) |->
                                     <<"For ", o[j][1], " use: ", StubNameOf(o[j][1])>>]]]] :
              o \in OrdersOf(dependencies) }
    ELSE { [kind |-> "finish",
            actions |-> JoinStubs([i \in 1..(Len(steps) - 1) |-> steps[i + 1].observation])] }

\* AgentExecutor.max_iterations
max_iterations == 15

InitStubber ==
    /\ IdleTool
    /\ NoFormatting
    /\ collection \in Collections
    /\ intermediate_steps = <<>>
    /\ pending = <<>>
    /\ planned = <<>>
    /\ iterations = 0
    /\ agent_state = "Idle"
    /\ agent_output = NoOutput

\* what a step of the stubbing agent leaves alone
RefactorUnchanged ==
    UNCHANGED << config, cancel_requested, runs, formatting, state, templates, idx, awaiting,
                 code, metadata, refactor_results, json_data, data, results, output, prompts >>

\* Stubber.create_stubs: the executor starts
CreateStubs ==
    /\ agent_state = "Idle"
    /\ agent_state' = "Running"
    /\ UNCHANGED << collection, intermediate_steps, pending, planned, iterations, agent_output >>
    /\ RefactorUnchanged

\* one iteration of the executor up to the return of StubbingAgent.plan
Plan ==
    /\ agent_state = "Running"
    /\ pending = <<>>
    /\ iterations < max_iterations
    /\ \E p \in plan(collection, intermediate_steps) :
          /\ planned' = p
          /\ CASE p.kind = "finish" ->
                    /\ agent_state' = "Finished"
                    /\ agent_output' = Return(p.actions)
                    /\ UNCHANGED << pending, iterations >>
               [] p.kind = "raise" ->
                    /\ agent_state' = "Failed"
                    /\ agent_output' = Raise(p.actions[1], <<p.actions[2]>>)
                    /\ UNCHANGED << pending, iterations >>
               [] OTHER ->
                    /\ pending' = p.actions
                    /\ iterations' = iterations + 1
                    /\ UNCHANGED << agent_state, agent_output >>
    /\ UNCHANGED << collection, intermediate_steps >>
    /\ RefactorUnchanged

\* the executor runs the tool of the next planned action
RunAction ==
    /\ agent_state = "Running"
    /\ pending # <<>>
    /\ LET action == Head(pending)
       IN IF action.tool = "get_dependency_list"
          THEN LET observation == get_dependency_list(collection, action.file, 1)
               IN IF observation.kind = "raise"
                  THEN /\ agent_state' = "Failed"
                       /\ agent_output' = observation
                       /\ UNCHANGED intermediate_steps
                  ELSE /\ intermediate_steps' =
                              Append(intermediate_steps,
                                     [action |-> action, observation |-> observation.value])
                       /\ UNCHANGED << agent_state, agent_output >>
          ELSE /\ intermediate_steps' =
                      Append(intermediate_steps,
                             [action |-> action, observation |-> create_stub_code(action.file)])
               /\ UNCHANGED << agent_state, agent_output >>
    /\ pending' = Tail(pending)
    /\ UNCHANGED << collection, planned, iterations >>
    /\ RefactorUnchanged

\* the executor leaves its loop at the iteration limit
StopAtLimit ==
    /\ agent_state = "Running"
    /\ pending = <<>>
    /\ iterations >= max_iterations
    /\ agent_state' = "Stopped"
    /\ agent_output' = Return(<<"Agent stopped due to iteration limit or time limit.">>)
    /\ UNCHANGED << collection, intermediate_steps, pending, planned, iterations >>
    /\ RefactorUnchanged

NextStubber ==
    \/ CreateStubs
    \/ Plan
    \/ RunAction
    \/ StopAtLimit

SpecStubber == InitStubber /\ [][NextStubber]_vars

\* the caller asks to cancel the run; nothing of CodeRefactorTool takes or
\* reads such a request
RequestCancel ==
    /\ state \in {"Idle", "Running"}
    /\ ~cancel_requested
    /\ cancel_requested' = TRUE
    /\ UNCHANGED << config, runs, formatting, stubbing, state, templates, idx, awaiting, code, metadata,
                    refactor_results, json_data, data, results, output, prompts >>

NextCancel ==
    \/ Next
    \/ RequestCancel

\* the runs whose caller may ask to cancel them at any moment: the report is
\* rendered as text and the options are listed in the order of template_checks
InitCancel ==
    /\ Init
    /\ ~json_output
    /\ additional_settings[1].name = template_checks[1].setting

SpecCancel == InitCancel /\ [][NextCancel]_vars

\* --------------------------------------------- concurrent runs on one tool
\* The runs share the tool and its configuration (additional_settings,
\* max_code_size_tokens, json_output); every call of an entry point has its
\* own arguments and local variables, kept in one record per run.
NumRuns == 2

\* the local variables of a call of an entry point that has not started
IdleRun(e, fd, fc) ==
    [entry |-> e, file_data |-> fd, file_classification |-> fc,
     state |-> "Idle", templates |-> <<>>, idx |-> 0, awaiting |-> FALSE,
     code |-> <<>>, metadata |-> <<>>, refactor_results |-> <<>>,
     json_data |-> <<>>, data |-> <<>>, results |-> <<>>, output |-> NoOutput,
     prompts |-> <<>>, received |-> <<>>]

\* _conduct_code_refactor and the start of _run_code_refactors of one run
RunConduct(run, md) ==
    LET started == [run EXCEPT !.metadata = md,
                               !.code = code_with_line_numbers(run.file_data)]
    IN IF MissingOptions(additional_settings) # {}
       THEN [started EXCEPT !.state = "HaltedConfigError",
                            !.output = Raise("KeyError", <<FirstMissingKey(additional_settings)>>)]
       ELSE LET active == get_active_code_refactor_templates(additional_settings)
            IN IF Len(active) = 0
               THEN [started EXCEPT !.templates = active,
                                    !.state = "HaltedNoPasses",
                                    !.output = Raise("Exception", <<NoActiveTemplatesMessage>>)]
               ELSE [started EXCEPT !.templates = active, !.state = "Running", !.idx = 1]

\* the entry point of one run up to the loop over the templates
RunStart(run) ==
    IF run.entry = "url" /\ source_control_provider \notin source_control_to_retriever_map
    THEN [run EXCEPT !.state = "RetrievalFailed",
                     !.output = Raise("AttributeError", <<"'str' object has no attribute 'pop'">>)]
    ELSE IF run.entry = "url"
    THEN LET code_file_token_count == num_tokens_from_string(run.file_data)
         IN IF TooLarge(code_file_token_count, max_code_size_tokens)
            THEN [run EXCEPT !.state = "HaltedBudget",
                             !.output = Return(TooLargeMessage(code_file_token_count,
                                                               max_code_size_tokens))]
            ELSE RunConduct(run, UrlMetadata)
    ELSE IF Lower(run.file_classification) # "code"
         THEN [run EXCEPT !.state = "HaltedNotCode", !.output = Return(<<NotCodeMessage>>)]
         ELSE RunConduct(run, FileIdMetadata)

\* one iteration of the loop of one run up to llm.predict, c the code the
\* prompt embeds
RunInvoke(run, c) ==
    [run EXCEPT !.prompts = Append(@, BuildPrompt(run.templates[run.idx], c, run.metadata,
                                      FormatInstructions(run.entry, additional_instructions))),
                !.awaiting = TRUE]

\* the rest of the iteration of one run once llm.predict returns the text of
\* reply d
RunReply(run, d) ==
    LET text == predict(d)
        parsed == parse_json(text, llm)
        tagged == ("refactor_type" :> run.templates[run.idx].description) @@ parsed
        got == [run EXCEPT !.awaiting = FALSE, !.json_data = text,
                           !.received = Append(@, d)]
    IN IF HasFinalAnswer(parsed)
       THEN [got EXCEPT !.data = parsed, !.state = "HaltedRefusal",
                        !.output = RefusalOutput(parsed)]
       ELSE IF "refactored_code" \notin DOMAIN parsed
       THEN [got EXCEPT !.data = parsed, !.state = "HaltedMalformed",
                        !.output = Raise("KeyError", <<"refactored_code">>)]
       ELSE LET kept == [got EXCEPT !.data = tagged,
                                    !.code = parsed["refactored_code"],
                                    !.refactor_results = Append(@, tagged)]
            IN IF run.idx < Len(run.templates)
               THEN [kept EXCEPT !.idx = run.idx + 1]
               ELSE LET agg == Aggregate(tagged, kept.refactor_results, kept.code)
                    IN [kept EXCEPT !.state = agg.state, !.output = agg.output,
                                    !.results = agg.results]

\* a code variable kept in one slot of the tool: every run reads the code of
\* the first run
SharedCode(rs, r) == rs[1].code

\* the code variable of run r: a local of its own call of _run_code_refactors
LocalCode(rs, r) == rs[r].code

\* the replies the model gives to a concurrent run: the full ones that echo
\* the metadata of the run, the ones without refactored_code and the refusal
ConcurrentReplies(md) ==
    { d \in Replies(md) :
        \/ DOMAIN d = {"final_answer"}
        \/ DOMAIN d = RequiredKeys /\ d["metadata"] = md
        \/ DOMAIN d = RequiredKeys \ {"refactored_code"} }

\* the configurations of the shared tool: the first n options enabled
InitConcurrent ==
    /\ \E n \in 0..MaxPasses :
          additional_settings =
              SettingsOf([i \in 1..Len(template_checks) |-> template_checks[i].setting],
                         { template_checks[k].setting : k \in 1..n })
    /\ max_code_size_tokens \in TokenLimits
    /\ json_output \in BOOLEAN
    /\ \E f1 \in FileTexts : \E f2 \in FileTexts \ {f1} :
          runs = << IdleRun("url", f1, "Code"), IdleRun("file_id", f2, "Code") >>
    /\ entry = "url"
    /\ file_data = runs[1].file_data
    /\ file_classification = "Code"
    /\ InitCaller
    /\ state = "Idle"
    /\ templates = <<>>
    /\ idx = 0
    /\ awaiting = FALSE
    /\ code = <<>>
    /\ metadata = <<>>
    /\ refactor_results = <<>>
    /\ json_data = <<>>
    /\ data = <<>>
    /\ results = <<>>
    /\ output = NoOutput
    /\ prompts = <<>>
    /\ cancel_requested = FALSE
    /\ NoFormatting
    /\ NoStubbing

\* what a step of a concurrent run leaves alone: the tool and every variable
\* outside the runs
ToolUnchanged ==
    UNCHANGED << config, cancel_requested, formatting, stubbing, state, templates, idx, awaiting, code,
                 metadata, refactor_results, json_data, data, results, output, prompts >>

StartRun(r) ==
    /\ runs[r].state = "Idle"
    /\ runs' = [runs EXCEPT ![r] = RunStart(runs[r])]
    /\ ToolUnchanged

InvokeRun(r) ==
    /\ runs[r].state = "Running"
    /\ ~runs[r].awaiting
    /\ runs' = [runs EXCEPT ![r] = RunInvoke(runs[r], LocalCode(runs, r))]
    /\ ToolUnchanged

ReplyRun(r, d) ==
    /\ runs[r].state = "Running"
    /\ runs[r].awaiting
    /\ runs' = [runs EXCEPT ![r] = RunReply(runs[r], d)]
    /\ ToolUnchanged

NextConcurrent ==
    \/ \E r \in 1..NumRuns : StartRun(r)
    \/ \E r \in 1..NumRuns : InvokeRun(r)
    \/ \E r \in 1..NumRuns : \E d \in ConcurrentReplies(runs[r].metadata) : ReplyRun(r, d)

\* the runs on distinct artifacts that execute concurrently on the same tool
SpecConcurrent == InitConcurrent /\ [][NextConcurrent]_vars

\* run executed alone on the replies it received: the entry point, then
\* every pass in turn up to its outstanding invocation
SoloRun(run, replies) ==
    LET Proceed(x) == IF x.state = "Running" THEN RunInvoke(x, x.code) ELSE x
        F[n \in 0..Len(replies)] ==
            IF n = 0
            THEN Proceed(RunStart(IdleRun(run.entry, run.file_data, run.file_classification)))
            ELSE Proceed(RunReply(F[n - 1], replies[n]))
    IN F[Len(replies)]


\* ------------------------------------------------- runs under one maximum
BudgetRuns == 3

\* runs of the url entry on texts of every length, held against the same
\* max_code_size_tokens; the tool has at most its first option enabled
InitBudget ==
    /\ \E n \in 0..1 :
          additional_settings =
              SettingsOf([i \in 1..Len(template_checks) |-> template_checks[i].setting],
                         { template_checks[k].setting : k \in 1..n })
    /\ max_code_size_tokens \in TokenLimits
    /\ json_output \in BOOLEAN
    /\ \E texts \in [1..BudgetRuns -> FileTexts] :
          runs = [r \in 1..BudgetRuns |-> IdleRun("url", texts[r], "Code")]
    /\ entry = "url"
    /\ file_data = runs[1].file_data
    /\ file_classification = "Code"
    /\ InitCaller
    /\ state = "Idle"
    /\ templates = <<>>
    /\ idx = 0
    /\ awaiting = FALSE
    /\ code = <<>>
    /\ metadata = <<>>
    /\ refactor_results = <<>>
    /\ json_data = <<>>
    /\ data = <<>>
    /\ results = <<>>
    /\ output = NoOutput
    /\ prompts = <<>>
    /\ cancel_requested = FALSE
    /\ NoFormatting
    /\ NoStubbing

NextBudget ==
    \/ \E r \in 1..BudgetRuns : StartRun(r)
    \/ \E r \in 1..BudgetRuns : InvokeRun(r)
    \/ \E r \in 1..BudgetRuns : \E d \in ConcurrentReplies(runs[r].metadata) : ReplyRun(r, d)

SpecBudget == InitBudget /\ [][NextBudget]_vars

\* ------------------------------------------------------- terms of the claims
\* needle occurs in hay as a run of consecutive pieces
Contains(hay, needle) ==
    \E k \in 0..(Len(hay) - Len(needle)) : SubSeq(hay, k + 1, k + Len(needle)) = needle

\* the replies received so far: those of the passes that went on are in
\* refactor_results, the reply that ended the run is in data
Received == IF awaiting \/ state = "InvocationFailed" THEN Len(prompts) - 1 ELSE Len(prompts)
ReplyOf(i) == IF i <= Len(refactor_results) THEN refactor_results[i] ELSE data

IsRefusal(d) == "final_answer" \in DOMAIN d
IsMalformed(d) == ~IsRefusal(d) /\ ~(RequiredKeys \subseteq DOMAIN d)
IsSuccess(d) == ~IsRefusal(d) /\ RequiredKeys \subseteq DOMAIN d

Cost == num_tokens_from_string(file_data)

\* the filter of the fixed order by a set of enabled settings
CanonicalPasses(enabled) ==
    LET F[n \in 0..Len(template_checks)] ==
            IF n = 0 THEN <<>>
            ELSE IF template_checks[n].setting \in enabled
                 THEN Append(F[n - 1], template_checks[n].description)
                 ELSE F[n - 1]
    IN F[Len(template_checks)]

\* ------------------------------------------------------------------ claims

\* C1: chain invariant.  The code of the prompt of pass 1 is the text of the
\* artifact (its lines, each under its line number), and the code of the prompt
\* of every later pass i+1 is exactly the refactored_code of the reply of pass i.
C1_ChainInvariant ==
    \A i \in 1..Len(prompts) :
        prompts[i].code = IF i = 1 THEN code_with_line_numbers(file_data)
                          ELSE refactor_results[i - 1]["refactored_code"]

\* a second pass was given the output of the first, which differs from the
\* text of the artifact
C1_Witness ==
    /\ Len(prompts) = 2
    /\ prompts[2].code = refactor_results[1]["refactored_code"]
    /\ prompts[2].code # file_data
    /\ prompts[2].code # prompts[1].code

\* C2: early-halt purity.  When the reply of some pass i is a refusal or lacks a
\* required field, the finished run has built no report and its output holds
\* no rewritten code and no rationale of the passes before i.
C2_EarlyHaltPurity ==
    state \in Terminal =>
        \A i \in 1..Received :
            (IsRefusal(ReplyOf(i)) \/ IsMalformed(ReplyOf(i))) =>
                /\ results = <<>>
                /\ \A j \in 1..(i - 1) :
                      /\ ~Contains(output.value, ReplyOf(j)["refactored_code"])
                      /\ "thoughts" \in DOMAIN ReplyOf(j) =>
                             ReplyOf(j)["thoughts"] \notin Range(output.value)

\* C3: budget guard on every entry point.  A run whose artifact costs more than
\* max_code_size_tokens never invokes the model and, once started, is in
\* HaltedBudget.
C3_BudgetGuardEveryEntry ==
    Cost > max_code_size_tokens =>
        /\ Len(prompts) = 0
        /\ state \in {"Idle", "HaltedBudget"}

\* C4: the explanation of a budget halt names the cost of the artifact and the
\* configured maximum.
C4_BudgetMessageNamesBoth ==
    state = "HaltedBudget" =>
        /\ ToString(Cost) \in Range(output.value)
        /\ ToString(max_code_size_tokens) \in Range(output.value)

\* C5: with no concern enabled the model is never invoked, and a run that the
\* checks ahead of the passes (the budget check of the url entry, the
\* classification check of the file id entry) let through finishes in
\* HaltedNoPasses, where the caller is returned a plain explanatory string and
\* no report.
C5_NoPassesPlainString ==
    EnabledOf(additional_settings) = {} =>
        /\ Len(prompts) = 0
        /\ (state \in Terminal /\ state \notin {"HaltedBudget", "HaltedNotCode"}) =>
              /\ state = "HaltedNoPasses"
              /\ output.kind = "return"
              /\ output.value = <<NoActiveTemplatesMessage>>
              /\ results = <<>>

\* C6: a reply of pass i that is no refusal and lacks one of the four required
\* fields ends the run in HaltedMalformed at pass i: no later pass has invoked
\* the model and no report is built.
C6_MissingFieldHalts ==
    \A i \in 1..Received :
        IsMalformed(ReplyOf(i)) =>
            /\ state = "HaltedMalformed"
            /\ Len(prompts) = i
            /\ results = <<>>

\* C7: when a reply omits refactored_code after earlier passes succeeded, the
\* caller receives an explanation that contains the text of that reply.
C7_MalformedCarriesRawReply ==
    ( /\ Received >= 2
      /\ ~awaiting
      /\ ~IsRefusal(data)
      /\ "refactored_code" \notin DOMAIN data ) =>
        /\ state = "HaltedMalformed"
        /\ Contains(output.value, json_data)
        /\ results = <<>>

\* C8: a refusal ends the run in HaltedRefusal without raising.  The caller
\* receives exactly the refusal text as a plain string, under either
\* json_output setting, no report is built and no later pass invokes the model.
C8_RefusalHaltsCleanly ==
    /\ \A i \in 1..Len(refactor_results) : ~IsRefusal(refactor_results[i])
    /\ IsRefusal(data) =>
          /\ state = "HaltedRefusal"
          /\ output.kind = "return"
          /\ output.value = <<data["final_answer"]>>
          /\ results = <<>>
          /\ ~awaiting
          /\ Len(prompts) = Len(refactor_results) + 1

\* the second pass was refused under json_output, also by a reply that holds
\* the four required fields
C8_Witness ==
    /\ json_output
    /\ Len(prompts) = 2
    /\ Len(templates) = 2
    /\ IsRefusal(data)
    /\ state = "HaltedRefusal"

\* C9: when every pass succeeds the run ends in Completed, its report lists one
\* rationale per enabled concern, tagged with the concern, in pipeline order,
\* and its final text is the refactored_code of the last pass.
C9_AllSucceedCompletes ==
    ( /\ Len(templates) >= 1
      /\ Received = Len(templates)
      /\ \A i \in 1..Len(templates) : IsSuccess(ReplyOf(i)) ) =>
        /\ state = "Completed"
        /\ results["refactor_thoughts"] =
              [i \in 1..Len(templates) |->
                  [refactor_type |-> CanonicalPasses(EnabledOf(additional_settings))[i],
                   thoughts |-> ReplyOf(i)["thoughts"]]]
        /\ results["refactored_code"] = ReplyOf(Len(templates))["refactored_code"]

\* C10: the active pass list is the fixed order restricted to the enabled
\* concerns, and every configuration that enables the same set, whatever the
\* order of its options, yields the same list.
C10_OrderDeterminism ==
    state \in {"Running", "HaltedNoPasses"} =>
        /\ [i \in 1..Len(templates) |-> templates[i].description]
              = CanonicalPasses(EnabledOf(additional_settings))
        /\ \A order \in ConfigOrders :
              get_active_code_refactor_templates(
                  SettingsOf(order, EnabledOf(additional_settings))) = templates

\* a configuration that lists its options in the reverse order has two passes
C10_Witness ==
    /\ state = "Running"
    /\ Len(templates) = 2
    /\ additional_settings[1].name = template_checks[Len(template_checks)].setting
    /\ templates[1].description = "Security"
    /\ templates[2].description = "Reliability"

\* the text pass i works on: the text of the artifact, then the
\* refactored_code of the pass before
CurrentText(i) == IF i = 1 THEN file_data ELSE refactor_results[i - 1]["refactored_code"]

\* C11: idempotence under no-op passes.  When every pass returns as
\* refactored_code the text it worked on, with a rationale, the final text of
\* the completed report is the text of the artifact.
C11_NoOpPassesKeepText ==
    ( /\ state = "Completed"
      /\ \A i \in 1..Len(refactor_results) :
            /\ refactor_results[i]["refactored_code"] = CurrentText(i)
            /\ refactor_results[i]["thoughts"] # "" ) =>
        results["refactored_code"] = file_data

\* two no-op passes on a two line artifact have completed
C11_Witness ==
    /\ state = "Completed"
    /\ Len(refactor_results) = 2
    /\ Len(file_data) = 2
    /\ \A i \in 1..2 : refactor_results[i]["refactored_code"] = CurrentText(i)
    /\ results["refactored_code"] = file_data

\* C13: the metadata of the report of a Completed run is the metadata of the
\* artifact.
C13_ReportKeepsMetadata ==
    state = "Completed" => results["metadata"] = metadata

\* C14: in every pass the code of the prompt is the current text under 1-based
\* line numbers.
C14_EveryPromptNumbered ==
    \A i \in 1..Len(prompts) : prompts[i].code = code_with_line_numbers(CurrentText(i))

\* C16: budget monotonicity, on runs of the url entry that share one maximum.
\* A started run is rejected by the size check exactly when the cost of its
\* text is strictly greater than the maximum; when a run is rejected, every
\* started run on a longer text is rejected too, and a started run on a
\* beginning of the rejected text whose cost is at or below the maximum is
\* not rejected.
C16_BudgetMonotonicity ==
    LET Started(r) == runs[r].state # "Idle"
        Rejected(r) == runs[r].state = "HaltedBudget"
        CostOf(r) == num_tokens_from_string(runs[r].file_data)
        Shrunk(a, b) ==
            /\ Len(runs[a].file_data) < Len(runs[b].file_data)
            /\ runs[a].file_data = SubSeq(runs[b].file_data, 1, Len(runs[a].file_data))
    IN /\ \A r \in DOMAIN runs :
             Started(r) => (Rejected(r) <=> CostOf(r) > max_code_size_tokens)
       /\ \A a, b \in DOMAIN runs :
             (Rejected(b) /\ Started(a) /\ Len(runs[a].file_data) > Len(runs[b].file_data))
                 => Rejected(a)
       /\ \A a, b \in DOMAIN runs :
             (Rejected(b) /\ Started(a) /\ Shrunk(a, b) /\ CostOf(a) <= max_code_size_tokens)
                 => /\ ~Rejected(a)
                    /\ runs[a].output.kind # "none"
                        => runs[a].output # Return(TooLargeMessage(CostOf(a), max_code_size_tokens))

\* under one maximum two texts of different lengths were rejected, and a
\* beginning of them whose cost equals the maximum was accepted and has gone
\* on to invoke the model
C16_Witness ==
    /\ Len(runs) = BudgetRuns
    /\ runs[1].state = "HaltedBudget"
    /\ runs[2].state = "HaltedBudget"
    /\ Len(runs[1].file_data) > Len(runs[2].file_data)
    /\ Len(runs[3].file_data) < Len(runs[2].file_data)
    /\ runs[3].file_data = SubSeq(runs[2].file_data, 1, Len(runs[3].file_data))
    /\ num_tokens_from_string(runs[3].file_data) = max_code_size_tokens
    /\ Len(runs[3].prompts) = 1

\* C17: an error of llm.predict reaches the caller as it was raised.  The run
\* ends with that exception, builds no report, starts no later pass and does
\* not invoke the model again for the failed pass.
C17_InvocationErrorPropagates ==
    /\ state = "InvocationFailed" =>
          /\ output.kind = "raise"
          /\ output.exc \in InvocationErrors
          /\ results = <<>>
          /\ ~awaiting
          /\ Len(prompts) = Len(refactor_results) + 1
    /\ (state = "Running" /\ ~awaiting) => Len(prompts) = Len(refactor_results)
    /\ output.kind = "return" => state # "InvocationFailed"

\* the invocation of the second pass failed after a first pass that succeeded
C17_Witness ==
    /\ state = "InvocationFailed"
    /\ Len(refactor_results) = 1
    /\ Len(prompts) = 2
    /\ output.exc = "TimeoutError"

\* C18: the passes of a run are strictly sequential.  At most one invocation
\* is outstanding, and an invocation is made only when every earlier reply has
\* been received and the refactored_code of the last one is the current text,
\* which the new prompt embeds.
C18_StrictlySequential ==
    /\ [](state = "Running" =>
            /\ Len(prompts) - Len(refactor_results) \in {0, 1}
            /\ awaiting <=> Len(prompts) = Len(refactor_results) + 1)
    /\ [][prompts' # prompts =>
            /\ ~awaiting
            /\ Len(prompts') = Len(prompts) + 1
            /\ Len(refactor_results) = Len(prompts)
            /\ prompts'[Len(prompts')].code = code
            /\ Len(prompts) >= 1 =>
                  code = refactor_results[Len(prompts)]["refactored_code"]]_vars

\* the second invocation is outstanding after the first reply was taken
C18_Witness ==
    /\ state = "Running"
    /\ awaiting
    /\ Len(prompts) = 2
    /\ Len(refactor_results) = 1
    /\ prompts[2].code = refactor_results[1]["refactored_code"]

\* C15: an enable option that the configuration leaves out counts as false.
\* A run that reaches the reading of the options goes on with the pass list
\* of the options that are set.
C15_MissingOptionIsDisabled ==
    state \notin {"Idle", "HaltedBudget", "HaltedNotCode"} =>
        /\ state # "HaltedConfigError"
        /\ [i \in 1..Len(templates) |-> templates[i].description]
              = CanonicalPasses(EnabledOf(additional_settings))

\* C20: a run can be cancelled at a pass boundary.  Once the caller has asked
\* to cancel, no pass invokes the model.
C20_CancelStopsPasses ==
    [][cancel_requested => prompts' = prompts]_vars

\* C19: runs on distinct artifacts that execute concurrently on the same tool
\* do not interfere.  In every interleaving of their steps each started run is
\* where the same run executed alone on the same replies is (same prompts,
\* same state, same output), and a step writes the variables of one run only.
C19_RunsDoNotInterfere ==
    /\ [](\A r \in 1..NumRuns :
            runs[r].state # "Idle" =>
                (IF runs[r].state = "Running" /\ ~runs[r].awaiting
                 THEN RunInvoke(runs[r], runs[r].code)
                 ELSE runs[r]) = SoloRun(runs[r], runs[r].received))
    /\ [][\E r \in 1..NumRuns : \A q \in 1..NumRuns \ {r} : runs'[q] = runs[q]]_vars

\* both runs wait for the reply of their second pass at the same moment, on
\* different code
C19_Witness ==
    /\ \A r \in 1..NumRuns :
          /\ runs[r].state = "Running"
          /\ runs[r].awaiting
          /\ runs[r].idx = 2
    /\ runs[1].prompts[2].code # runs[2].prompts[2].code
    /\ runs[1].file_data # runs[2].file_data

\* the pieces of seq occur in text in the order of seq
InOrder(text, seq) ==
    LET F[n \in 0..Len(seq)] ==
            IF n = 0 THEN 0
            ELSE IF F[n - 1] = -1 THEN -1
            ELSE IF \E k \in (F[n - 1] + 1)..Len(text) : text[k] = seq[n]
                 THEN CHOOSE k \in (F[n - 1] + 1)..Len(text) :
                          /\ text[k] = seq[n]
                          /\ \A j \in (F[n - 1] + 1)..(k - 1) : text[j] # seq[n]
                 ELSE -1
    IN F[Len(seq)] # -1

\* C22: under json_output the output of a Completed run is the encoding of the
\* report between json fences, with the language, the metadata, the rationale
\* of every concern in order and the final text of the report; without
\* json_output it is the human readable layout, and never both.
C22_StructuredOutputKeepsFields ==
    state = "Completed" =>
        /\ output.kind = "return"
        /\ json_output =>
              /\ output.value[1] = Fence \o "json\n"
              /\ output.value[Len(output.value)] = "\n" \o Fence
              /\ InOrder(output.value,
                         <<"{'language': ", results.language, ", 'metadata': ">>)
              /\ Contains(output.value, ReprMetadata(results.metadata))
              /\ InOrder(output.value,
                         [i \in 1..Len(results.refactor_thoughts) |->
                             results.refactor_thoughts[i].thoughts])
              /\ InOrder(output.value,
                         [i \in 1..Len(results.refactor_thoughts) |->
                             results.refactor_thoughts[i].refactor_type])
              /\ Contains(output.value, <<"], 'refactored_code': ">> \o results.refactored_code)
              /\ output # format_refactor_results(results)
        /\ ~json_output => output = format_refactor_results(results)

\* a report of two concerns was given out under json_output
C22_Witness ==
    /\ state = "Completed"
    /\ json_output
    /\ Len(results.refactor_thoughts) = 2
    /\ results.refactor_thoughts[1].thoughts # results.refactor_thoughts[2].thoughts

\* C23: the prompt of pass i holds the template of the i-th active concern,
\* the metadata the entry point gave and the instructions of the caller; the
\* metadata and the instructions are the same in every pass, whatever the
\* replies before held, and no two passes hold the same template.
C23_PromptFrame ==
    \A i \in 1..Len(prompts) :
        /\ prompts[i].template = templates[i].name
        /\ prompts[i].code_metadata = (IF entry = "url" THEN UrlMetadata ELSE FileIdMetadata)
        /\ prompts[i].code_metadata = prompts[1].code_metadata
        /\ additional_instructions \in Range(prompts[i].additional_instructions)
        /\ prompts[i].additional_instructions = prompts[1].additional_instructions
        /\ \A j \in 1..(i - 1) : prompts[j].template # prompts[i].template

\* the second pass was prompted after a reply that held other metadata, with
\* instructions of the user
C23_Witness ==
    /\ Len(prompts) = 2
    /\ additional_instructions = "keep the public names"
    /\ Len(prompts[2].additional_instructions) = 3
    /\ Len(refactor_results) >= 1
    /\ "metadata" \in DOMAIN refactor_results[1]
    /\ refactor_results[1]["metadata"] # metadata
    /\ prompts[2].code # prompts[1].code

\* C24: a reply with a final_answer key, at whatever pass and also with the
\* four required fields beside it, is the last reply of the run: the caller
\* gets that text, no report is built, and the reply's refactored_code is not
\* taken over.
C24_FinalAnswerAtAnyPass ==
    \A i \in 1..Received :
        IsRefusal(ReplyOf(i)) =>
            /\ i = Received
            /\ state = "HaltedRefusal"
            /\ output = Return(<<ReplyOf(i)["final_answer"]>>)
            /\ results = <<>>
            /\ Len(refactor_results) = i - 1
            /\ code = (IF i = 1 THEN code_with_line_numbers(file_data)
                       ELSE refactor_results[i - 1]["refactored_code"])

\* the reply of the second pass held final_answer and the four required fields
C24_Witness ==
    /\ state = "HaltedRefusal"
    /\ Received = 2
    /\ RequiredKeys \subseteq DOMAIN data
    /\ "final_answer" \in DOMAIN data

\* the terminal states of the run of the specification's state machine
SpecTerminal == {"Completed", "HaltedRefusal", "HaltedMalformed", "HaltedBudget", "HaltedNoPasses"}

\* C25: with every invocation returning, a finished run is in one of the five
\* terminal states, after at most as many invocations as concerns are enabled,
\* each concern prompted at most once.
C25_FiveTerminalStates ==
    (state \in Terminal /\ state # "InvocationFailed") =>
        /\ state \in SpecTerminal
        /\ Len(prompts) <= Cardinality(EnabledOf(additional_settings))
        /\ \A i, j \in 1..Len(prompts) : i # j => prompts[i].template # prompts[j].template
        /\ ~awaiting

\* C26: in a run started from a url the size check comes before the check of
\* the active templates: an oversized artifact with no concern enabled ends
\* in HaltedBudget with the size message.
C26_BudgetBeforePasses ==
    ( /\ entry = "url"
      /\ state # "Idle"
      /\ Cost > max_code_size_tokens
      /\ EnabledOf(additional_settings) = {} ) =>
        /\ state = "HaltedBudget"
        /\ output = Return(TooLargeMessage(Cost, max_code_size_tokens))
        /\ output.value # <<NoActiveTemplatesMessage>>
        /\ templates = <<>>
        /\ prompts = <<>>

\* an oversized artifact with no concern enabled was turned away
C26_Witness ==
    /\ entry = "url"
    /\ Cost > max_code_size_tokens
    /\ EnabledOf(additional_settings) = {}
    /\ state = "HaltedBudget"

\* C27: with a provider that has no retriever the url entry point gives the
\* caller the message of retrieve_source_code_from_url and invokes no model.
C27_NoRetrieverMessage ==
    ( /\ entry = "url"
      /\ source_control_provider \notin source_control_to_retriever_map
      /\ state # "Idle" ) =>
        /\ output = Return(NoRetrieverMessage(source_control_provider))
        /\ prompts = <<>>

\* the positions of piece in text
PositionsOf(text, piece) == { k \in 1..Len(text) : text[k] = piece }

\* C21: the rendering shows the url as the label of the file whenever the
\* metadata of the report holds a url, with or without a file name beside it,
\* and the file name when it holds no url; the blocks of the concerns come one
\* per concern, in the order of the report, before the heading of the code.
C21_LabelAndBlockOrder ==
    (rendering # NoOutput /\ ("url" \in DOMAIN report.metadata \/ "filename" \in DOMAIN report.metadata)) =>
        LET text == rendering.value
            label == IF "url" \in DOMAIN report.metadata
                     THEN report.metadata["url"]
                     ELSE report.metadata["filename"]
            heading == CHOOSE k \in 1..Len(text) :
                           text[k] = "\n\n### Refactored Code\n" \o Fence
            T == report.refactor_thoughts
        IN /\ rendering.kind = "return"
           /\ Contains(text, <<"**\n- File: **", label, "**\n\n">>)
           /\ Cardinality(PositionsOf(text, "**\n- File: **")) = 1
           /\ ("url" \in DOMAIN report.metadata /\ "filename" \in DOMAIN report.metadata) =>
                  report.metadata["filename"] \notin Range(text)
           /\ Cardinality(PositionsOf(text, "#### **")) = Len(T)
           /\ \A k \in PositionsOf(text, "#### **") : k < heading
           /\ InOrder(SubSeq(text, 1, heading - 1), [i \in 1..Len(T) |-> T[i].refactor_type])
           /\ InOrder(SubSeq(text, 1, heading - 1), [i \in 1..Len(T) |-> T[i].thoughts])
           /\ SubSeq(text, heading + 3, heading + 2 + Len(report.refactored_code))
                  = report.refactored_code

\* a report of two concerns whose metadata holds a url and a file name was
\* rendered
C21_Witness ==
    /\ rendering # NoOutput
    /\ rendering.kind = "return"
    /\ "url" \in DOMAIN report.metadata
    /\ "filename" \in DOMAIN report.metadata
    /\ Len(report.refactor_thoughts) = 2

\* the file names the includes of a file name
IncludedBy(files, name) ==
    IF name \in DOMAIN files
    THEN { files[name][i][Len(files[name][i])] : i \in 1..Len(files[name]) }
    ELSE {}

\* the direct and transitive dependencies of the target file
TransitiveDependencies(files) ==
    LET F[n \in 0..(MaxFiles + 1)] ==
            IF n = 0 THEN IncludedBy(files, TargetFile)
            ELSE F[n - 1] \cup UNION { IncludedBy(files, d) : d \in F[n - 1] }
    IN F[MaxFiles + 1]

\* C28: get_dependency_list comes back with a list for every include graph of
\* the collection, also for one with a cycle: the nest of calls never grows
\* until the interpreter gives up.
C28_DependencyListTerminates ==
    agent_output.exc # "RecursionError"

\* C29: what get_dependency_list returns names every direct and transitive
\* dependency of the target file, and no file name twice.
C29_EveryDependencyOnce ==
    Len(intermediate_steps) >= 1 =>
        LET names == SplitComma(intermediate_steps[1].observation)
        IN /\ \A d \in TransitiveDependencies(collection) : <<d>> \in Range(names)
           /\ \A i, j \in 1..Len(names) : (i # j /\ names[i] # <<>>) => names[i] # names[j]

\* C30: once get_dependency_list has reported, the steps of the agent are the
\* get_dependency_list action, then the create_stub_code actions of distinct
\* dependencies; plan returns no empty action list, raises nothing, and the
\* executor does not run into its iteration limit.
C30_PlanReachesFinish ==
    Len(intermediate_steps) >= 1 =>
        /\ intermediate_steps[1].action.tool = "get_dependency_list"
        /\ \A i \in 2..Len(intermediate_steps) :
              /\ intermediate_steps[i].action.tool = "create_stub_code"
              /\ <<intermediate_steps[i].action.file>>
                     \in Range(SplitComma(intermediate_steps[1].observation))
              /\ \A j \in 2..(i - 1) :
                     intermediate_steps[j].action.file # intermediate_steps[i].action.file
        /\ planned.kind = "actions" => planned.actions # <<>>
        /\ agent_state \notin {"Stopped", "Failed"}
        /\ agent_state = "Finished" =>
              Len(intermediate_steps) - 1 =
                  Cardinality(Range(SplitComma(intermediate_steps[1].observation)) \ {<<>>})

====
